---------------------------- MODULE Spec2Model ----------------------------
(* A model of the A-Train dataset code (src/src/datasets/atrain.py): the   *)
(* interpolation recipe builder, the instance loader, the batch collator,  *)
(* the flip transforms, the interpolation of a dense model output at the   *)
(* label points, and the evaluator.                                        *)
(*                                                                         *)
(* Fractional coordinates are fixed-point numbers: the integer v stands    *)
(* for v / Den.  An axis weight w stands for w / Den and a corner weight   *)
(* for w / Den^2.  A mean is the pair (num, den) of its numerator and its  *)
(* number of terms; den = 0 is numpy's mean of an empty array (nan).       *)
EXTENDS Integers, Sequences, FiniteSets, TLC

VARIABLES
    instance_info,   \* ATrain.instance_info: the keys of the index, in file order
    instance_ids,    \* ATrain.instance_ids: the ids of the split, in split order
    loaded,          \* what the last __getitem__ call returned or raised
    items,           \* the records gathered for the next batch
    batch,           \* the collated batch (mutated in place by transforms and interpolation)
    pc,              \* where the training step stands
    call,            \* the last interp_atrain_output call: its inputs and local values
    out_interp,      \* what the last interp_atrain_output call returned or raised
    predictions,     \* evaluate's argument: instance id -> predicted array
    metric_names,    \* evaluate's argument: the requested metrics
    metrics,         \* evaluate's accumulator: metric name -> list of values
    eval_i,          \* evaluate's loop position in instance_ids
    eval_pc,         \* "idle", "loop", "returned" or the exception raised
    cur,             \* ground truth and prediction of the instance evaluated last
    result           \* what evaluate returned

datasetVars == <<instance_info, instance_ids>>
loadVars == <<loaded>>
pipeVars == <<items, batch, pc, call, out_interp>>
evalVars == <<predictions, metric_names, metrics, eval_i, eval_pc, cur, result>>
vars == <<instance_info, instance_ids, loaded, items, batch, pc, call, out_interp,
          predictions, metric_names, metrics, eval_i, eval_pc, cur, result>>

None == [tag |-> "none"]

-----------------------------------------------------------------------------
(* Bounds of the model.                                                    *)

\* Fixed-point resolution of a fractional coordinate: v stands for v / Den.
Den == 2
\* Number of instances in the index (instance_info.json).
NumInst == 2
\* Label files read by a single __getitem__ call hold at most this many points.
MaxLoadPts == 1
\* A batch collated on its own holds at most this many records ...
MaxCollateBatch == 2
\* ... of at most this many points each.
MaxCollatePts == 2
\* A batch of the training step holds at most this many records ...
MaxPipeBatch == 2
\* ... of at most this many points each.
MaxPipePts == 1
\* Height bins of a cloud scenario row (125 in the data set).
NumBins == 2
\* Label points of the instance whose metrics are checked value by value.
MaxPixels == 2

-----------------------------------------------------------------------------
(* Sequences and numbers.                                                  *)

Range(s) == {s[i] : i \in DOMAIN s}

Abs(n) == IF n < 0 THEN -n ELSE n

RECURSIVE SumSeq(_)
SumSeq(s) == IF s = <<>> THEN 0 ELSE Head(s) + SumSeq(Tail(s))

RECURSIVE Flatten(_)
\* torch.cat(list, dim=0)
Flatten(ss) == IF ss = <<>> THEN <<>> ELSE Head(ss) \o Flatten(Tail(ss))

\* The injective sequences of length 1..n over S.
InjSeqs(S, n) ==
    UNION {{s \in [1..k -> S] : \A i, j \in 1..k : i # j => s[i] # s[j]} : k \in 1..n}

\* All sequences of length 0..n over S.
SeqsUpTo(S, n) == UNION {[1..k -> S] : k \in 0..n}

-----------------------------------------------------------------------------
(* ATrain.__init__: the index and the split.                               *)

DatasetInit ==
    /\ instance_info = [i \in 1..NumInst |-> i]
    /\ instance_ids \in InjSeqs(Range(instance_info), NumInst)

-----------------------------------------------------------------------------
(* ATrain._patch_idx_to_interp.                                            *)

\* np.floor(v).astype(int) of the coordinate v / Den
Floor(v) == v \div Den

\* Ceil as "the next grid line", floor + 1, which differs on exact integers.
CeilNext(v) == (v \div Den) + 1

\* np.ceil(v).astype(int) of the coordinate v / Den
Ceil(v) == -((-v) \div Den)

\* The axis weight with the absolute value forgotten.
AxisWeightNoAbs(corner, v) == Den - (corner * Den - v)

\* 1 - abs(corner - idx) on one axis, in units of 1 / Den
AxisWeight(corner, v) == Den - Abs(corner * Den - v)

\* interp_corners of one point (y, x): topleft, topright, bottomleft, bottomright,
\* each <<row, column>>
Corners(y, x) ==
    LET top == Floor(y)  bottom == Ceil(y)
        left == Floor(x) right == Ceil(x)
    IN  << <<top, left>>, <<top, right>>, <<bottom, left>>, <<bottom, right>> >>

\* interp_weights of one point: weight_y * weight_x per corner, in units of 1 / Den^2
Weights(y, x) ==
    LET cs == Corners(y, x)
    IN  [j \in 1..4 |-> AxisWeight(cs[j][1], y) * AxisWeight(cs[j][2], x)]

\* patch_idx is <<idx_y, idx_x>>, two sequences of equal length.
PatchIdxToInterp(patch_idx) ==
    LET idx_y == patch_idx[1]
        idx_x == patch_idx[2]
    IN  [corners |-> [k \in DOMAIN idx_y |-> Corners(idx_y[k], idx_x[k])],
         weights |-> [k \in DOMAIN idx_y |-> Weights(idx_y[k], idx_x[k])]]

-----------------------------------------------------------------------------
(* ATrain.__getitem__.                                                     *)

\* The sensor array of an h x w patch.  A pixel is named by the place it was
\* read from, so that a later flip of the image shows.
SensorArr(h, w) == [r \in 0..(h - 1) |-> [c \in 0..(w - 1) |-> r * w + c]]

\* The label artifacts (pickled output_dict) with at most maxpts points whose
\* row coordinates are in Ys, column coordinates in Xs and label rows in Rows.
LabelFiles(maxpts, Ys, Xs, Rows) ==
    UNION {
        {[instance_id |-> d, patch_idx |-> <<ys, xs>>, cloud_scenario |-> cs] :
            d \in Range(instance_info), ys \in [1..n -> Ys], xs \in [1..n -> Xs],
            cs \in [1..n -> Rows]} : n \in 0..maxpts}

\* __getitem__ without its integrity check
GetItemNoAssert(idx, parasol_arr, output_dict) ==
    LET inst_id == instance_ids[idx]
        interp == PatchIdxToInterp(output_dict.patch_idx)
    IN  [tag |-> "item",
         instance_id |-> inst_id,
         sensor_input |-> parasol_arr,
         corners |-> interp.corners,
         weights |-> interp.weights,
         cloud_scenario |-> output_dict.cloud_scenario]

\* The record __getitem__ returns, or the exception it raises.
GetItem(idx, parasol_arr, output_dict) ==
    LET inst_id == instance_ids[idx]
        interp == PatchIdxToInterp(output_dict.patch_idx)
    IN  IF inst_id # output_dict.instance_id
        THEN [tag |-> "AssertionError"]
        ELSE [tag |-> "item",
              instance_id |-> inst_id,
              sensor_input |-> parasol_arr,
              corners |-> interp.corners,
              weights |-> interp.weights,
              cloud_scenario |-> output_dict.cloud_scenario]

\* The coordinates -1, ..., 1 in steps of 1 / Den.
LoadCoords == (-Den)..Den

\* One __getitem__(idx) call; the files it reads are its inputs.  `loaded`
\* keeps the label artifact read beside the outcome.
Load ==
    /\ loaded = None
    /\ \E idx \in DOMAIN instance_ids,
          output_dict \in LabelFiles(MaxLoadPts, LoadCoords, LoadCoords, {<<1, 0>>}) :
            loaded' = [idx |-> idx, output_dict |-> output_dict,
                       ret |-> GetItem(idx, SensorArr(2, 2), output_dict)]
    /\ UNCHANGED <<datasetVars, pipeVars, evalVars>>

-----------------------------------------------------------------------------
(* Idle values of the parts a specification does not exercise.             *)

IdleLoad == loaded = None

IdlePipe ==
    /\ items = <<>>
    /\ batch = None
    /\ pc = "idle"
    /\ call = None
    /\ out_interp = None

IdleEval ==
    /\ predictions = <<>>
    /\ metric_names = <<>>
    /\ metrics = <<>>
    /\ eval_i = 0
    /\ eval_pc = "idle"
    /\ cur = None
    /\ result = None

-----------------------------------------------------------------------------
(* SpecLoad: single __getitem__ calls on a dataset.                        *)

InitLoad == DatasetInit /\ IdleLoad /\ IdlePipe /\ IdleEval

NextLoad == Load

SpecLoad == InitLoad /\ [][NextLoad]_vars

-----------------------------------------------------------------------------
(* collate_atrain.                                                         *)

\* tensor.shape[-2:] of a sensor array
ShapeOf(arr) == <<Cardinality(DOMAIN arr), Cardinality(DOMAIN arr[0])>>

\* b_idx with the owning index appended once per record, not once per point
OwnerIndexOnce(records) == Flatten([i \in DOMAIN records |-> <<i - 1>>])

\* torch.cat(b_idx): the record's position in the batch, counted from 0,
\* repeated once per point of the record
OwnerIndex(records) ==
    Flatten([i \in DOMAIN records |->
                [k \in DOMAIN records[i].corners |-> i - 1]])

\* The collated batch, or the exception torch.stack raises on an empty list or
\* on sensor arrays of unequal shape.
CollateAtrain(records) ==
    IF \/ records = <<>>
       \/ \E i \in DOMAIN records :
            ShapeOf(records[i].sensor_input) # ShapeOf(records[1].sensor_input)
    THEN [tag |-> "RuntimeError"]
    ELSE [tag |-> "batch",
          instance_id |-> [i \in DOMAIN records |-> records[i].instance_id],
          sensor_input |-> [i \in 0..(Len(records) - 1) |-> records[i + 1].sensor_input],
          batch_idx |-> OwnerIndex(records),
          corners |-> Flatten([i \in DOMAIN records |-> records[i].corners]),
          weights |-> Flatten([i \in DOMAIN records |-> records[i].weights]),
          cloud_scenario |-> Flatten([i \in DOMAIN records |-> records[i].cloud_scenario])]

\* The data loader's collate_fn call on the records gathered for a batch.
Collate ==
    /\ pc = "fetch"
    /\ items # <<>>
    /\ batch' = CollateAtrain(items)
    /\ pc' = IF batch'.tag = "batch" THEN "collated" ELSE "error"
    /\ UNCHANGED <<datasetVars, loadVars, evalVars, items, call, out_interp>>

-----------------------------------------------------------------------------
(* SpecCollate: collate_atrain applied to lists of loaded records.         *)

\* Two label points: a fractional one and one on grid lines, with distinct labels.
CollatePoints == {[y |-> 1, x |-> Den + 1, row |-> <<1, 0>>],
                  [y |-> Den, x |-> 0, row |-> <<0, 1>>]}

\* The label artifact of instance d holding the points pts.
LabelFileOf(d, pts) ==
    [instance_id |-> d,
     patch_idx |-> <<[k \in DOMAIN pts |-> pts[k].y], [k \in DOMAIN pts |-> pts[k].x]>>,
     cloud_scenario |-> [k \in DOMAIN pts |-> pts[k].row]]

\* The records of the split's first b instances, for every choice of their points.
LoadedLists(b) ==
    {[i \in 1..b |-> GetItem(i, SensorArr(2, 2), LabelFileOf(instance_ids[i], ps[i]))] :
        ps \in [1..b -> SeqsUpTo(CollatePoints, MaxCollatePts)]}

InitCollate ==
    /\ DatasetInit
    /\ IdleLoad /\ IdleEval
    /\ \E b \in 1..MaxCollateBatch :
        /\ b <= Len(instance_ids)
        /\ items \in LoadedLists(b)
    /\ batch = None
    /\ pc = "fetch"
    /\ call = None
    /\ out_interp = None

NextCollate == Collate

SpecCollate == InitCollate /\ [][NextCollate]_vars

\* P_0 + ... + P_{i-1} for the record at position i (counted from 1)
RECURSIVE PointsBefore(_, _)
PointsBefore(records, i) ==
    IF i <= 1 THEN 0
    ELSE PointsBefore(records, i - 1) + Len(records[i - 1].corners)

\* C7: the batch is the exact concatenation of its records: corners, weights,
\* labels and owning indices all have length P_0 + ... + P_{B-1}, and position
\* (P_0 + ... + P_{i-1}) + j of each holds point j of record i with owning
\* index i (records counted from 0).
C7_CollateIsConcatenation ==
    (pc = "collated") =>
        LET total == PointsBefore(items, Len(items) + 1)
        IN  /\ Len(batch.corners) = total
            /\ Len(batch.weights) = total
            /\ Len(batch.cloud_scenario) = total
            /\ Len(batch.batch_idx) = total
            /\ \A i \in DOMAIN items :
                \A j \in DOMAIN items[i].corners :
                    LET pos == PointsBefore(items, i) + j
                    IN  /\ batch.corners[pos] = items[i].corners[j]
                        /\ batch.weights[pos] = items[i].weights[j]
                        /\ batch.cloud_scenario[pos] = items[i].cloud_scenario[j]
                        /\ batch.batch_idx[pos] = i - 1

C7_Witness ==
    /\ pc = "collated"
    /\ Len(items) = 2
    /\ Len(items[1].corners) = 2
    /\ Len(items[2].corners) = 1
    /\ Len(batch.corners) = 3
    /\ batch.batch_idx = <<0, 0, 1>>
    /\ batch.cloud_scenario[1] # batch.cloud_scenario[2]

-----------------------------------------------------------------------------
(* The transforms of get_transforms, applied to a collated batch.          *)

\* norm_transform: TF.normalize rescales every pixel value; pixels, corners
\* and weights stay where they are.
NormTransform ==
    /\ pc = "collated"
    /\ pc' = "normed"
    /\ UNCHANGED <<datasetVars, loadVars, evalVars, items, batch, call, out_interp>>

\* TF.hflip: every row of every image reversed
HflipImages(imgs) ==
    [b \in DOMAIN imgs |->
        [r \in DOMAIN imgs[b] |->
            [c \in DOMAIN imgs[b][r] |->
                imgs[b][r][Cardinality(DOMAIN imgs[b][r]) - 1 - c]]]]

\* TF.vflip: the rows of every image in reverse order
VflipImages(imgs) ==
    [b \in DOMAIN imgs |->
        [r \in DOMAIN imgs[b] |-> imgs[b][Cardinality(DOMAIN imgs[b]) - 1 - r]]]

\* corners[..., 0] = w - corners[..., 0] - 1
FlipComponent0(corners, w) ==
    [k \in DOMAIN corners |->
        [j \in 1..4 |-> <<w - corners[k][j][1] - 1, corners[k][j][2]>>]]

\* corners[..., 1] = h - corners[..., 1] - 1
FlipComponent1(corners, h) ==
    [k \in DOMAIN corners |->
        [j \in 1..4 |-> <<corners[k][j][1], h - corners[k][j][2] - 1>>]]

\* random_hflip: the flip is taken when random.random() > 0.5
RandomHflip ==
    /\ pc = "normed"
    /\ \E take \in BOOLEAN :
        batch' = IF take
                 THEN LET flipped == HflipImages(batch.sensor_input)
                          w == ShapeOf(flipped[0])[2]
                      IN  [batch EXCEPT !.sensor_input = flipped,
                                        !.corners = FlipComponent0(batch.corners, w)]
                 ELSE batch
    /\ pc' = "hflipped"
    /\ UNCHANGED <<datasetVars, loadVars, evalVars, items, call, out_interp>>

\* random_vflip: the flip is taken when random.random() > 0.5
RandomVflip ==
    /\ pc = "hflipped"
    /\ \E take \in BOOLEAN :
        batch' = IF take
                 THEN LET flipped == VflipImages(batch.sensor_input)
                          h == ShapeOf(flipped[0])[1]
                      IN  [batch EXCEPT !.sensor_input = flipped,
                                        !.corners = FlipComponent1(batch.corners, h)]
                 ELSE batch
    /\ pc' = "ready"
    /\ UNCHANGED <<datasetVars, loadVars, evalVars, items, call, out_interp>>

-----------------------------------------------------------------------------
(* interp_atrain_output.                                                   *)

\* The four masked assignments "keep the corners in bounds", in order.  The
\* mask selects corners, so each assignment overwrites the whole (row, column)
\* pair of a selected corner.
ClampPair(p, h, w) ==
    LET p1 == IF p[1] < 0 THEN <<0, 0>> ELSE p
        p2 == IF p1[1] >= h THEN <<h - 1, h - 1>> ELSE p1
        p3 == IF p2[2] < 0 THEN <<0, 0>> ELSE p2
        p4 == IF p3[2] >= w THEN <<w - 1, w - 1>> ELSE p3
    IN  p4

ClampCorners(corners, h, w) ==
    [k \in DOMAIN corners |-> [j \in 1..4 |-> ClampPair(corners[k][j], h, w)]]

\* corner_idx[:, :, 0] * patch_shape[0] + corner_idx[:, :, 1]
FlatCorner(p, h, w) == p[1] * h + p[2]

\* idx = batch_idx * patch_shape[0] * patch_shape[1] + corner_idx
FlatIndex(b, p, h, w) == b * h * w + FlatCorner(p, h, w)

\* Row n of out.permute(0, 2, 3, 1).reshape(-1, C): the channel vector of the
\* cell (n div (h * w), (n mod (h * w)) div w, n mod w) of the (B, H, W, C) tensor.
OutRow(out, n, h, w) ==
    LET b == n \div (h * w)
        r == (n % (h * w)) \div w
        c == n % w
    IN  [ch \in DOMAIN out[b] |-> out[b][ch][r][c]]

\* What interp_atrain_output does with the batch bt and the model output out:
\* the batch's corners after the call, the indices gathered, and the
\* interpolated output or the IndexError of an index outside the flattened
\* output (a negative index counts from its end).
InterpAtrainOutput(bt, out) ==
    LET shape == ShapeOf(bt.sensor_input[0])
        h == shape[1]
        w == shape[2]
        n == Cardinality(DOMAIN out) * h * w
        corner_idx == ClampCorners(bt.corners, h, w)
        idx == [k \in DOMAIN corner_idx |->
                   [j \in 1..4 |-> FlatIndex(bt.batch_idx[k], corner_idx[k][j], h, w)]]
        inRange == \A k \in DOMAIN idx : \A j \in 1..4 : idx[k][j] >= -n /\ idx[k][j] < n
        row(k, j) == OutRow(out, IF idx[k][j] < 0 THEN idx[k][j] + n ELSE idx[k][j], h, w)
    IN  [corners |-> corner_idx,
         idx |-> idx,
         ret |-> IF inRange
                 THEN [tag |-> "tensor",
                       rows |-> [k \in DOMAIN idx |->
                                   [ch \in DOMAIN out[0] |->
                                       SumSeq([j \in 1..4 |-> bt.weights[k][j] * row(k, j)[ch]])]]]
                 ELSE [tag |-> "IndexError"]]

\* The model outputs tried: (B, C, H, W) tensors whose cells all differ.
OutTensors(nb, h, w) ==
    {[b \in 0..(nb - 1) |->
        [ch \in 1..nc |->
            [r \in 0..(h - 1) |->
                [c \in 0..(w - 1) |-> 1 + (b * h * w + r * w + c) * (nc + ch)]]]] :
        nc \in {1, 2}}

\* One interp_atrain_output(batch, out) call of the training or validation step.
Interp ==
    /\ pc \in {"normed", "ready", "interpolated"}
    /\ \E out \in OutTensors(Len(batch.instance_id),
                             ShapeOf(batch.sensor_input[0])[1],
                             ShapeOf(batch.sensor_input[0])[2]) :
        \E res \in {InterpAtrainOutput(batch, out)} :
            /\ call' = [corners_in |-> batch.corners, out |-> out,
                        corner_idx |-> res.corners, idx |-> res.idx]
            /\ batch' = [batch EXCEPT !.corners = res.corners]
            /\ out_interp' = res.ret
            /\ pc' = IF res.ret.tag = "tensor" THEN "interpolated" ELSE "error"
    /\ UNCHANGED <<datasetVars, loadVars, evalVars, items>>

-----------------------------------------------------------------------------
(* SpecPipe: a training or validation step: records are fetched, collated, *)
(* transformed, and the model output is interpolated at the label points.  *)

PipeShapes == {<<2, 2>>, <<2, 3>>, <<3, 2>>}

\* The coordinates -1 / Den, ..., n - 1 / Den in steps of 1 / Den: their corners
\* reach from -1 to n, one line outside the grid on either side.
PipeCoords(n) == (-1)..(n * Den - 1)

\* A data loader worker fetches the next record of the batch; a failed load
\* aborts the step.
Fetch ==
    /\ pc = "fetch"
    /\ Len(items) < MaxPipeBatch
    /\ Len(items) < Len(instance_ids)
    /\ \E shape \in IF items = <<>> THEN PipeShapes
                    ELSE {ShapeOf(items[1].sensor_input)} :
       \E output_dict \in LabelFiles(MaxPipePts, PipeCoords(shape[1]),
                                     PipeCoords(shape[2]), {<<1, 0>>}) :
        LET item == GetItem(Len(items) + 1, SensorArr(shape[1], shape[2]), output_dict)
        IN  IF item.tag = "item"
            THEN items' = Append(items, item) /\ pc' = pc
            ELSE items' = items /\ pc' = "error"
    /\ UNCHANGED <<datasetVars, loadVars, evalVars, batch, call, out_interp>>

InitPipe ==
    /\ DatasetInit
    /\ instance_ids = instance_info
    /\ IdleLoad /\ IdleEval
    /\ items = <<>>
    /\ batch = None
    /\ pc = "fetch"
    /\ call = None
    /\ out_interp = None

NextPipe ==
    \/ Fetch
    \/ Collate
    \/ NormTransform
    \/ RandomHflip
    \/ RandomVflip
    \/ Interp

SpecPipe == InitPipe /\ [][NextPipe]_vars

-----------------------------------------------------------------------------
(* ATrain.evaluate.                                                        *)

ALL_METRICS == {"cloud_mask_accuracy", "cloud_scenario_accuracy",
                "cloudtop_height_bin_accuracy", "cloudtop_height_bin_offset_error"}
MASK_ONLY_METRICS == {"cloud_mask_accuracy", "cloudtop_height_bin_accuracy",
                      "cloudtop_height_bin_offset_error"}
SQUASH_BINS_METRICS == {"cloud_mask_accuracy"}

\* The multi-hot arrays of p pixels by k bins.
CloudArrays(p, k) == [1..p -> [1..k -> {0, 1}]]

\* The integer 0 appended for a missing prediction.
Zero == [num |-> 0, den |-> 1]

\* np.mean of a sequence of numbers: the sum over the number of terms; with no
\* term numpy returns nan (den = 0).
Mean(xs) == [num |-> SumSeq(xs), den |-> Len(xs)]

Bit(b) == IF b THEN 1 ELSE 0

\* np.sum(gt_cloud_scenario, axis=1, keepdims=True) > 0
SquashBins(gt) == [i \in DOMAIN gt |-> <<Bit(SumSeq(gt[i]) > 0)>>]

\* a mask that wants every bin set
CloudMaskAll(a) == [i \in DOMAIN a |-> \A b \in DOMAIN a[i] : a[i][b] > 0]

\* (a > 0).any(axis=1)
CloudMask(a) == [i \in DOMAIN a |-> \E b \in DOMAIN a[i] : a[i][b] > 0]

\* np.where(row)[0]: the indices, counted from 0, of the nonzero entries
Where(row) == {b - 1 : b \in {c \in DOMAIN row : row[c] # 0}}

\* _min: -1 for an empty index array, else its minimum
MinOrSentinel(S) == IF S = {} THEN -1 ELSE CHOOSE m \in S : \A n \in S : m <= n

\* h_bins_pred, h_bins_gt
HBins(a) == [i \in DOMAIN a |-> MinOrSentinel(Where(a[i]))]

\* a mask that is set where either has clouds
EitherClouds(pm, gm) == [i \in DOMAIN pm |-> pm[i] \/ gm[i]]

\* both_clouds = pred_cloud_mask * gt_cloud_mask
BothClouds(pm, gm) == [i \in DOMAIN pm |-> pm[i] /\ gm[i]]

\* xs[mask]: the entries of xs where the boolean mask is set, in order
RECURSIVE Masked(_, _)
Masked(xs, mask) ==
    IF xs = <<>> THEN <<>>
    ELSE (IF Head(mask) THEN <<Head(xs)>> ELSE <<>>) \o Masked(Tail(xs), Tail(mask))

\* The values the loop body computes for one instance, given its prediction and
\* the ground truth read from its label artifact.
InstanceMetrics(pred, gt_labels) ==
    LET gt_cloud_scenario == IF Len(pred[1]) = 1 THEN SquashBins(gt_labels) ELSE gt_labels
        gt_cloud_mask == CloudMask(gt_cloud_scenario)
        pred_cloud_mask == CloudMask(pred)
        h_bins_pred == HBins(pred)
        h_bins_gt == HBins(gt_cloud_scenario)
        both_clouds == BothClouds(pred_cloud_mask, gt_cloud_mask)
        pred_both == Masked(h_bins_pred, both_clouds)
        gt_both == Masked(h_bins_gt, both_clouds)
        height_bin_offsets == [i \in DOMAIN pred_both |-> Abs(pred_both[i] - gt_both[i])]
    IN  [cloud_mask_accuracy |->
             Mean([i \in DOMAIN pred |-> Bit(gt_cloud_mask[i] = pred_cloud_mask[i])]),
         cloud_scenario_accuracy |->
             Mean(Flatten([i \in DOMAIN pred |->
                     [b \in DOMAIN pred[i] |-> Bit(gt_cloud_scenario[i][b] = pred[i][b])]])),
         cloudtop_height_bin_accuracy |->
             Mean([i \in DOMAIN pred |-> Bit(h_bins_pred[i] = h_bins_gt[i])]),
         cloudtop_height_bin_offset_error |-> Mean(height_bin_offsets)]

\* One pass of the loop over self.instance_ids.  Without a prediction for the
\* instance a 0 is appended to every metric and predictions[inst_id] then
\* raises KeyError.
EvalStep ==
    /\ eval_pc = "loop"
    /\ eval_i <= Len(instance_ids)
    /\ LET inst_id == instance_ids[eval_i]
       IN  IF inst_id \notin DOMAIN predictions
           THEN /\ metrics' = [m \in DOMAIN metrics |-> Append(metrics[m], Zero)]
                /\ eval_pc' = "KeyError"
                /\ UNCHANGED <<eval_i, cur>>
           ELSE LET pred == predictions[inst_id]
                IN  \E gt_labels \in CloudArrays(Len(pred), NumBins) :
                      \E vals \in {InstanceMetrics(pred, gt_labels)} :
                        /\ metrics' = [m \in DOMAIN metrics |-> Append(metrics[m], vals[m])]
                        /\ cur' = [inst_id |-> inst_id, pred |-> pred, gt |-> gt_labels]
                        /\ eval_i' = eval_i + 1
                        /\ eval_pc' = eval_pc
    /\ UNCHANGED <<datasetVars, loadVars, pipeVars, predictions, metric_names, result>>

\* After the loop: the id list is added under "instance_ids" and the
\* accumulator returned.
EvalReturn ==
    /\ eval_pc = "loop"
    /\ eval_i > Len(instance_ids)
    /\ result' = [k \in DOMAIN metrics \cup {"instance_ids"} |->
                    IF k = "instance_ids" THEN instance_info ELSE metrics[k]]
    /\ eval_pc' = "returned"
    /\ UNCHANGED <<datasetVars, loadVars, pipeVars, predictions, metric_names, metrics,
                   eval_i, cur>>

NextEval == EvalStep \/ EvalReturn

\* evaluate(predictions, metrics) is entered: the accumulator is empty.
EvalEntered ==
    /\ metrics = [m \in metric_names |-> <<>>]
    /\ eval_i = 1
    /\ eval_pc = "loop"
    /\ cur = None
    /\ result = None

\* The predictions tried on a whole split: one pixel each, full or single-bin.
SplitPredictions ==
    UNION {[D -> CloudArrays(1, NumBins) \cup CloudArrays(1, 1)] :
            D \in SUBSET Range(instance_ids)}

\* SpecEval: evaluate on a split of several instances, some without prediction.
InitEval ==
    /\ DatasetInit
    /\ IdleLoad /\ IdlePipe
    /\ predictions \in SplitPredictions
    /\ metric_names \in {ALL_METRICS, MASK_ONLY_METRICS, SQUASH_BINS_METRICS}
    /\ EvalEntered

SpecEval == InitEval /\ [][NextEval]_vars

\* The predictions tried on one instance: up to MaxPixels pixels, full or single-bin.
InstancePredictions ==
    UNION {CloudArrays(p, NumBins) \cup CloudArrays(p, 1) : p \in 1..MaxPixels}

\* SpecMetrics: evaluate with the default metrics on a data set of one instance,
\* over every prediction and ground truth of that instance.
InitMetrics ==
    /\ instance_info = <<1>>
    /\ instance_ids = <<1>>
    /\ IdleLoad /\ IdlePipe
    /\ \/ predictions = <<>>
       \/ \E pred \in InstancePredictions : predictions = (1 :> pred)
    /\ metric_names = ALL_METRICS
    /\ EvalEntered

SpecMetrics == InitMetrics /\ [][NextEval]_vars

-----------------------------------------------------------------------------
(* Claims about evaluate, under SpecEval and SpecMetrics.                  *)

\* C1: an instance of the split without a prediction does not make the call
\* fail: the call returns, and the instance contributes exactly one value, 0,
\* to every requested metric.
C1_MissingPredictionScoresZero ==
    /\ eval_pc # "KeyError"
    /\ eval_pc = "returned" =>
        \A m \in metric_names :
            /\ Len(result[m]) = Len(instance_ids)
            /\ \A k \in DOMAIN instance_ids :
                   instance_ids[k] \notin DOMAIN predictions => result[m][k] = Zero

\* C2: when the call returns, the id list holds the instances of the split in
\* split order and every requested metric array has one entry per id of that
\* list (entry k is the value of the instance evaluated k-th).
C2_MetricArraysParallelToIds ==
    eval_pc = "returned" =>
        /\ result["instance_ids"] = instance_ids
        /\ \A m \in metric_names : Len(result[m]) = Len(result["instance_ids"])

\* The instance evaluated last and the value appended for it.
Evaluated == cur # None /\ eval_pc # "KeyError"
LastValue(m) == metrics[m][eval_i - 1]

\* at least one bin of the row is set
HasSetBin(row) == \E b \in DOMAIN row : row[b] = 1

\* the top bin of a row with a set bin: the lowest index, counted from 0, of a set bin
TopBin(row) ==
    CHOOSE t \in 0..(Len(row) - 1) :
        /\ row[t + 1] = 1
        /\ \A u \in 0..(t - 1) : row[u + 1] = 0

\* the ground truth OR-reduced to a single bin
OrReduced(gt) == [i \in DOMAIN gt |-> <<IF HasSetBin(gt[i]) THEN 1 ELSE 0>>]

\* the ground truth the prediction is compared with
ComparedGt == IF Len(cur.pred[1]) = 1 THEN OrReduced(cur.gt) ELSE cur.gt

\* the pixels where prediction and ground truth both have a set bin
BothCloudy == {i \in DOMAIN cur.pred : HasSetBin(cur.pred[i]) /\ HasSetBin(cur.gt[i])}

RECURSIVE SumOver(_, _)
\* the sum of f[i] over the i in S
SumOver(S, f) ==
    IF S = {} THEN 0
    ELSE LET i == CHOOSE j \in S : TRUE IN f[i] + SumOver(S \ {i}, f)

\* |predicted top bin - top bin of the ground truth g| per pixel of BothCloudy
TopBinOffsets(g) ==
    [i \in BothCloudy |-> Abs(TopBin(cur.pred[i]) - TopBin(g[i]))]

\* C8 as stated: the value is the mean of |predicted top bin - ground-truth top
\* bin| over exactly the pixels cloudy in both, and it is 0 if the top bins
\* agree on all those pixels.
C8_OffsetErrorAsStated ==
    Evaluated =>
        LET v == LastValue("cloudtop_height_bin_offset_error")
        IN  /\ v.den = Cardinality(BothCloudy)
            /\ v.num = SumOver(BothCloudy, TopBinOffsets(cur.gt))
            /\ (\A i \in BothCloudy : TopBin(cur.pred[i]) = TopBin(cur.gt[i]))
                   => v.num = 0 /\ v.den > 0

\* The statement of C8 about agreeing top bins alone, on predictions with all
\* their bins: violated by an instance with no pixel cloudy in both (nan).
C8_ZeroWhenTopBinsAgree ==
    (Evaluated /\ Len(cur.pred[1]) = NumBins) =>
        LET v == LastValue("cloudtop_height_bin_offset_error")
        IN  (\A i \in BothCloudy : TopBin(cur.pred[i]) = TopBin(cur.gt[i]))
                => v.num = 0 /\ v.den > 0

\* C8 amended: the ground truth is first OR-reduced to one bin when the
\* prediction has a single bin; with at least one pixel cloudy in both, the
\* value is the mean of |predicted top bin - ground-truth top bin| over exactly
\* those pixels (so 0 if the top bins agree on all of them); with no such pixel
\* the value is nan, the mean of an empty array.
C8_OffsetErrorAmended ==
    Evaluated =>
        LET v == LastValue("cloudtop_height_bin_offset_error")
        IN  /\ v.den = Cardinality(BothCloudy)
            /\ v.num = SumOver(BothCloudy, TopBinOffsets(ComparedGt))
            /\ (/\ BothCloudy # {}
                /\ \A i \in BothCloudy : TopBin(cur.pred[i]) = TopBin(ComparedGt[i]))
                   => v.num = 0 /\ v.den > 0
            /\ BothCloudy = {} => v.den = 0

\* A pixel cloudy in both with top bins one apart beside a pixel that is
\* cloud-free in the prediction: the mean is taken over the first alone.
C8_Witness ==
    /\ Evaluated
    /\ Len(cur.pred) = 2
    /\ Cardinality(BothCloudy) = 1
    /\ \E i \in DOMAIN cur.pred : ~HasSetBin(cur.pred[i]) /\ HasSetBin(cur.gt[i])
    /\ LastValue("cloudtop_height_bin_offset_error") = [num |-> 1, den |-> 1]

\* C9: the value is the fraction of pixels where (any bin set in the ground
\* truth) equals (any bin set in the prediction), the ground truth being
\* OR-reduced to one bin first when the prediction has a single bin; for a
\* prediction identical to the ground truth it is 1.0.
C9_CloudMaskAccuracy ==
    Evaluated =>
        LET v == LastValue("cloud_mask_accuracy")
            agree == {i \in DOMAIN cur.pred :
                        HasSetBin(ComparedGt[i]) <=> HasSetBin(cur.pred[i])}
        IN  /\ v.den = Len(cur.pred)
            /\ v.num = Cardinality(agree)
            /\ cur.pred = cur.gt => v.num = v.den /\ v.den > 0

\* A single-bin prediction that is right on one pixel of a two-bin ground
\* truth and wrong on the other.
C9_Witness ==
    /\ Evaluated
    /\ Len(cur.pred) = 2
    /\ Len(cur.pred[1]) = 1
    /\ Len(cur.gt[1]) = NumBins
    /\ HasSetBin(cur.gt[1]) /\ HasSetBin(cur.pred[1])
    /\ LastValue("cloud_mask_accuracy") = [num |-> 1, den |-> 2]

\* The other case of C9: a prediction identical to a mixed ground truth scores 1.0.
C9_ReachedIdentical ==
    /\ Evaluated
    /\ cur.pred = cur.gt
    /\ \E i, j \in DOMAIN cur.gt : HasSetBin(cur.gt[i]) /\ ~HasSetBin(cur.gt[j])
    /\ LastValue("cloud_mask_accuracy") = [num |-> 2, den |-> 2]

-----------------------------------------------------------------------------
(* Claims about interp_atrain_output, under SpecPipe.                      *)

Min(a, b) == IF a < b THEN a ELSE b
Max(a, b) == IF a > b THEN a ELSE b

\* a coordinate clamped into [0, n - 1]
ClampTo(v, n) == Min(Max(v, 0), n - 1)

CallShape == ShapeOf(batch.sensor_input[0])

\* C3: every corner's row is clamped into [0, height - 1] and its column into
\* [0, width - 1] independently: the cell used for the corner (r, c) is
\* (min(max(r, 0), height - 1), min(max(c, 0), width - 1)).
C3_ClampsAxesIndependently ==
    call # None =>
        \A k \in DOMAIN call.corners_in :
            \A j \in 1..4 :
                call.corner_idx[k][j] =
                    <<ClampTo(call.corners_in[k][j][1], CallShape[1]),
                      ClampTo(call.corners_in[k][j][2], CallShape[2])>>

\* C4: the call returns one row per label point, in point order, and the row
\* of point k holds for every channel the sum over the four corners j of
\* weight[k][j] * out[owner(k)][channel][row_j][col_j], (row_j, col_j) being
\* the corner clamped into the grid, whatever the patch height and width.
C4_WeightedSumOfClampedCorners ==
    call # None =>
        /\ out_interp.tag = "tensor"
        /\ DOMAIN out_interp.rows = DOMAIN batch.batch_idx
        /\ \A k \in DOMAIN out_interp.rows :
            \A ch \in DOMAIN call.out[0] :
                out_interp.rows[k][ch] =
                    SumSeq([j \in 1..4 |->
                        batch.weights[k][j] *
                        call.out[batch.batch_idx[k]][ch]
                                [ClampTo(call.corners_in[k][j][1], CallShape[1])]
                                [ClampTo(call.corners_in[k][j][2], CallShape[2])]])

\* The same statement on square patches with every corner inside the grid,
\* where neither the clamping nor the stride matters: it holds.
C4_HoldsOnSquareInBounds ==
    (/\ call # None
     /\ CallShape[1] = CallShape[2]
     /\ \A k \in DOMAIN call.corners_in : \A j \in 1..4 :
            /\ call.corners_in[k][j][1] \in 0..(CallShape[1] - 1)
            /\ call.corners_in[k][j][2] \in 0..(CallShape[2] - 1))
    => C4_WeightedSumOfClampedCorners

\* The same statement with every corner inside the grid, on any patch shape:
\* violated on a non-square patch by the stride alone.
C4_InBoundsAnyShape ==
    (/\ call # None
     /\ \A k \in DOMAIN call.corners_in : \A j \in 1..4 :
            /\ call.corners_in[k][j][1] \in 0..(CallShape[1] - 1)
            /\ call.corners_in[k][j][2] \in 0..(CallShape[2] - 1))
    => C4_WeightedSumOfClampedCorners

\* A step that is an interp_atrain_output call: the only step that leaves the
\* training step ready for, or after, an interpolation.
InterpStep ==
    /\ pc \in {"normed", "ready", "interpolated"}
    /\ pc' \in {"interpolated", "error"}

\* every corner of the batch lies inside the grid
CornersInGrid ==
    \A k \in DOMAIN batch.corners : \A j \in 1..4 :
        /\ batch.corners[k][j][1] \in 0..(CallShape[1] - 1)
        /\ batch.corners[k][j][2] \in 0..(CallShape[2] - 1)

\* C11: a call of interp_atrain_output leaves the batch's recipe as it was:
\* corners, weights and owning indices are the same after the call as before
\* it, also for corners outside the grid (so after any number of calls they
\* are what they were before the first).
C11_InterpLeavesRecipeUnchanged ==
    [][InterpStep =>
          /\ batch'.corners = batch.corners
          /\ batch'.weights = batch.weights
          /\ batch'.batch_idx = batch.batch_idx]_vars

\* The part of C11 that the code keeps: weights and owning indices are never
\* written, and corners inside the grid are rewritten with their own values.
C11_HoldsForWeightsOwnersAndCornersInGrid ==
    [][InterpStep =>
          /\ batch'.weights = batch.weights
          /\ batch'.batch_idx = batch.batch_idx
          /\ CornersInGrid => batch'.corners = batch.corners]_vars

\* the flat indices of the last call all lie in the output slice of the
\* instance that owns their point
IndicesInOwnSlice ==
    \A k \in DOMAIN call.idx : \A j \in 1..4 :
        /\ call.idx[k][j] >= batch.batch_idx[k] * CallShape[1] * CallShape[2]
        /\ call.idx[k][j] < (batch.batch_idx[k] + 1) * CallShape[1] * CallShape[2]

\* C12: for any patch height and width and any integer corners, every flat
\* index gathered for a point owned by instance b lies in
\* [b * height * width, (b + 1) * height * width).
C12_FlatIndexInOwnSlice ==
    call # None => IndicesInOwnSlice

\* C12 restricted to square patches, where the height stride of the flat
\* index equals the width stride of the flattened output.
C12_HoldsOnSquare ==
    (call # None /\ CallShape[1] = CallShape[2]) => IndicesInOwnSlice

-----------------------------------------------------------------------------
(* Claims about random_hflip and random_vflip, under SpecPipe.             *)

\* steps of random_hflip and random_vflip in which the flip is taken (the
\* pixels of an image all differ, so a flipped image is a changed image)
HflipTaken ==
    pc = "normed" /\ pc' = "hflipped" /\ batch'.sensor_input # batch.sensor_input

VflipTaken ==
    pc = "hflipped" /\ pc' = "ready" /\ batch'.sensor_input # batch.sensor_input

\* every corner (r, c) replaced by (r, width - 1 - c)
ColumnsMirrored(corners, width) ==
    [k \in DOMAIN corners |->
        [j \in 1..4 |-> <<corners[k][j][1], width - 1 - corners[k][j][2]>>]]

\* every corner (r, c) replaced by (height - 1 - r, c)
RowsMirrored(corners, height) ==
    [k \in DOMAIN corners |->
        [j \in 1..4 |-> <<height - 1 - corners[k][j][1], corners[k][j][2]>>]]

\* C13: a flip that is taken flips the corners on the axis of the image: a
\* horizontal flip replaces every corner's column c by width - 1 - c and
\* leaves its row, a vertical flip replaces every corner's row r by
\* height - 1 - r and leaves its column.
C13_FlipsMirrorCornersOnImageAxis ==
    [][/\ HflipTaken => batch'.corners = ColumnsMirrored(batch.corners, CallShape[2])
       /\ VflipTaken => batch'.corners = RowsMirrored(batch.corners, CallShape[1])]_vars

-----------------------------------------------------------------------------
(* Claims about _patch_idx_to_interp and __getitem__, under SpecLoad.      *)

Returned == loaded # None /\ loaded.ret.tag = "item"

LoadedPoints == DOMAIN loaded.output_dict.patch_idx[1]
LoadedY(k) == loaded.output_dict.patch_idx[1][k]
LoadedX(k) == loaded.output_dict.patch_idx[2][k]

\* v / Den is an exact integer
IsGridLine(v) == v % Den = 0

\* the integers a corner of a loaded point can be
GridLines == (-2)..2

\* C5: a point whose row and column are both strictly between two consecutive
\* integers r < y < r + 1 and c < x < c + 1 gets the corners (r, c), (r, c + 1),
\* (r + 1, c), (r + 1, c + 1) in that order, no negative weight, and weights
\* that sum to exactly 1 (Den * Den in fixed point).
C5_FractionalWeightsSumToOne ==
    Returned =>
        \A k \in LoadedPoints :
            \A r, c \in GridLines :
                (/\ r * Den < LoadedY(k) /\ LoadedY(k) < (r + 1) * Den
                 /\ c * Den < LoadedX(k) /\ LoadedX(k) < (c + 1) * Den)
                =>
                /\ loaded.ret.corners[k] =
                       << <<r, c>>, <<r, c + 1>>, <<r + 1, c>>, <<r + 1, c + 1>> >>
                /\ \A j \in 1..4 : loaded.ret.weights[k][j] >= 0
                /\ SumSeq(loaded.ret.weights[k]) = Den * Den

C5_Witness ==
    /\ Returned
    /\ \E k \in LoadedPoints :
        /\ ~IsGridLine(LoadedY(k)) /\ ~IsGridLine(LoadedX(k))
        /\ LoadedY(k) < 0
        /\ SumSeq(loaded.ret.weights[k]) = Den * Den

C6_ReachedBoth ==
    /\ Returned
    /\ \E k \in LoadedPoints :
        /\ IsGridLine(LoadedY(k)) /\ IsGridLine(LoadedX(k))
        /\ SumSeq(loaded.ret.weights[k]) = 4 * Den * Den

\* C10: a load whose label artifact declares another instance id than the one
\* requested raises and returns no record; a record is returned only when the
\* two ids are equal.
C10_IntegrityCheck ==
    loaded # None =>
        LET requested == instance_ids[loaded.idx]
            declared == loaded.output_dict.instance_id
        IN  /\ declared # requested => loaded.ret = [tag |-> "AssertionError"]
            /\ loaded.ret.tag = "item" =>
                   declared = requested /\ loaded.ret.instance_id = requested

C10_Witness ==
    /\ loaded # None
    /\ loaded.output_dict.instance_id # instance_ids[loaded.idx]
    /\ loaded.ret.tag = "AssertionError"

=============================================================================
